---- MODULE Spec2Model ----
(***************************************************************************)
(* Model of app.py: a Streamlit script that loads a PDF into session       *)
(* state and scans its pages with a document-question-answering pipeline.  *)
(* Every user interaction reruns the script from the top: the upload       *)
(* handling (lines 45-74) runs first, then the question column (lines      *)
(* 101-214) and the debug section (lines 216-231).  The page scan of a     *)
(* search is split into its steps (progress report, page processing,       *)
(* result display) so that their order is observable.  A run is not        *)
(* interrupted: the next interaction is handled once the run has ended.    *)
(* The pipeline returns dicts whose answer is a string and whose score is  *)
(* a number, so a page fails in preprocessing or in the pipeline call.     *)
(*                                                                         *)
(* Scores are floats in [0,1] in the program; here they are integers in    *)
(* thousandths (0.01 = 10, 0.05 = 50).  Texts are tuples of characters.    *)
(***************************************************************************)
EXTENDS Integers, Sequences, FiniteSets, TLC

VARIABLES
    processed_pages,    \* st.session_state.processed_pages
    current_file_name,  \* st.session_state.current_file_name
    uploaded_file,      \* value of the st.file_uploader widget
    notices,            \* st.success / st.error / st.warning / st.info of the current run
    ui,                 \* what column 2 renders in the current run
    load_status,        \* outcome of the most recent convert_from_path attempt
    test_result,        \* outcome of the debug "Run Test Query" of the current run
    event,              \* the interaction that triggered the current run
    pc,                 \* position of the current run
    question,           \* value of st.text_input read by the current run
    search_mode,        \* value of st.radio read by the current run
    i,                  \* loop index of `for i, page in enumerate(pages)`
    all_answers,        \* the accumulator, in append order
    calls,              \* page numbers passed to query_pipeline by the search loop
    progress_log,       \* progress reports emitted, with the pages completed at that time
    completed,          \* pages whose processing has ended (returned, failed or broke)
    warnings,           \* page numbers of the st.warning("Error processing page ...")
    results,            \* the list displayed by the results section
    broke               \* the Quick-mode break was taken

vars == <<processed_pages, current_file_name, uploaded_file, notices, ui,
          load_status, test_result, event, pc, question, search_mode, i,
          all_answers, calls, progress_log, completed, warnings, results, broke>>

----------------------------------------------------------------------------
(* Bounds *)

MaxPages == 2       \* pages of the longest document

(* Program constants *)

TopK == 3                   \* top_k=3
InclusionThreshold == 10    \* score > 0.01
StopThreshold == 50         \* score > 0.05

Quick == "Quick (Best match)"
Thorough == "Thorough (All pages)"
Modes == {Quick, Thorough}

----------------------------------------------------------------------------
(* Inputs *)

Names == {"a.pdf", "b.pdf"}
Contents == {1, 2}

\* The uploader holds nothing, or one file with a name and bytes.
NoFile == [name |-> "<none>", content |-> 0]
Files == [name : Names, content : Contents]

\* Number of pages of the PDF with the given bytes.
NumPagesOf(c) == IF c = 1 THEN 1 ELSE MaxPages

\* convert_from_path: the ordered page images of the PDF.
Rasterize(c) == [k \in 1..NumPagesOf(c) |-> [src |-> c, no |-> k]]

None == [none |-> TRUE, pages |-> <<>>]
Some(ps) == [none |-> FALSE, pages |-> ps]
NoName == "<None>"

\* Python truthiness of st.session_state.processed_pages.
Truthy(pp) == ~pp.none /\ Len(pp.pages) > 0

Questions == {<<>>, <<" ">>, <<"q">>}

Texts == {<<" ">>, <<" ", "a", " ">>}
Scores == {10, 50, 60}

\* One raw result of the pipeline: a dict with answer and score, or a
\* falsy / non-dict entry.
NullRes == [valid |-> FALSE, answer |-> <<>>, score |-> 0]
RawResults == [valid : {TRUE}, answer : Texts, score : Scores] \cup {NullRes}

\* The pipeline returns one dict or a list of at most top_k dicts.
Responses ==
    [kind : {"dict"}, val : RawResults]
    \cup [kind : {"list"},
          val : UNION {[1..n -> RawResults] : n \in 0..TopK}]

----------------------------------------------------------------------------
(* Pure helpers *)

RECURSIVE LStrip(_)
LStrip(s) == IF s # <<>> /\ Head(s) = " " THEN LStrip(Tail(s)) ELSE s

RECURSIVE RStrip(_)
RStrip(s) ==
    IF s # <<>> /\ s[Len(s)] = " " THEN RStrip(SubSeq(s, 1, Len(s) - 1)) ELSE s

\* str.strip()
Strip(s) == RStrip(LStrip(s))

\* `if question:` -- truthiness of the string
QuestionGiven(q) == q # <<>>

\* if isinstance(result, dict): result = [result]
Normalize(r) == IF r.kind = "dict" THEN <<r.val>> ELSE r.val

\* if score > 0.01 and len(answer) > 0   (answer already stripped)
Include_NoStrip(raw) == raw.score > InclusionThreshold /\ Len(raw.answer) > 0
Include(raw) == raw.score > InclusionThreshold /\ Len(Strip(raw.answer)) > 0

\* the dict appended to all_answers
MakeAnswer(idx, raw) ==
    [page |-> idx + 1, answer |-> Strip(raw.answer), score |-> raw.score]

\* for res in result: ... all_answers.append(...)
RECURSIVE AppendResults(_, _, _)
AppendResults(acc, idx, rs) ==
    IF rs = <<>> THEN acc
    ELSE LET res == Head(rs)
         IN  IF res.valid /\ Include(res)
             THEN AppendResults(Append(acc, MakeAnswer(idx, res)), idx, Tail(rs))
             ELSE AppendResults(acc, idx, Tail(rs))

\* search_mode == "Quick (Best match)" and all_answers and all_answers[-1]['score'] > 0.05
QuickStop_AnyMode(mode, acc) ==
    acc # <<>> /\ acc[Len(acc)].score > StopThreshold
QuickStop_First(mode, acc) ==
    mode = Quick /\ acc # <<>> /\ acc[1].score > StopThreshold
QuickStop(mode, acc) ==
    mode = Quick /\ acc # <<>> /\ acc[Len(acc)].score > StopThreshold

\* progress = (i + 1) / len(pages); "Processing page {i+1}/{len(pages)}..."
ProgressReport_Off(idx, n) == [done |-> idx, total |-> n]
ProgressReport(idx, n) == [done |-> idx + 1, total |-> n]

\* except Exception: st.warning(...); continue
PageError_Clear(acc) == <<>>
PageError(acc) == acc

\* Position of x in a list sorted by score descending, after its equals.
RECURSIVE InsertDesc_Before(_, _)
InsertDesc_Before(x, s) ==
    IF s = <<>> THEN <<x>>
    ELSE IF Head(s).score > x.score
         THEN <<Head(s)>> \o InsertDesc_Before(x, Tail(s))
         ELSE <<x>> \o s
RECURSIVE InsertDesc(_, _)
InsertDesc(x, s) ==
    IF s = <<>> THEN <<x>>
    ELSE IF Head(s).score >= x.score
         THEN <<Head(s)>> \o InsertDesc(x, Tail(s))
         ELSE <<x>> \o s

\* all_answers.sort(key=lambda x: x['score'], reverse=True)
RECURSIVE SortFrom(_, _)
SortFrom(sorted, rest) ==
    IF rest = <<>> THEN sorted
    ELSE SortFrom(InsertDesc(Head(rest), sorted), Tail(rest))
SortAnswers(s) == SortFrom(<<>>, s)

----------------------------------------------------------------------------
(* Upload handling, lines 45-74 *)

\* current_file_name != uploaded_file.name or processed_pages is None
NeedsProcessing(name, pp, file) == name # file.name \/ pp.none

\* except Exception: st.error(...); processed_pages = None
LoadFailure_Keep(pp) == pp
LoadFailure(pp) == None

\* The session state, notices and load status after the upload block,
\* given whether convert_from_path succeeds.
LoadStep(file, ok) ==
    IF file = NoFile \/ ~NeedsProcessing(current_file_name, processed_pages, file)
    THEN [pages |-> processed_pages, name |-> current_file_name,
          notices |-> {}, status |-> load_status]
    ELSE IF ok
         THEN [pages |-> Some(Rasterize(file.content)), name |-> file.name,
               notices |-> {"load_success"}, status |-> "ok"]
         ELSE [pages |-> LoadFailure(processed_pages), name |-> current_file_name,
               notices |-> {"load_error"}, status |-> "failed"]

\* `if st.session_state.processed_pages:` ... `else: st.info(...)`
Column2(pp) == IF Truthy(pp) THEN "search_ui" ELSE "info"

NoSearch ==
    /\ question' = <<>>
    /\ search_mode' = Quick
    /\ i' = 0
    /\ all_answers' = <<>>
    /\ calls' = <<>>
    /\ progress_log' = <<>>
    /\ completed' = 0
    /\ warnings' = <<>>
    /\ results' = <<>>
    /\ broke' = FALSE

\* One run of the script with no button pressed.
PlainRun(file, ok, ev) ==
    LET ld == LoadStep(file, ok)
    IN  /\ uploaded_file' = file
        /\ processed_pages' = ld.pages
        /\ current_file_name' = ld.name
        /\ load_status' = ld.status
        /\ notices' = ld.notices
        /\ ui' = Column2(ld.pages)
        /\ test_result' = "none"
        /\ event' = ev
        /\ pc' = "idle"
        /\ NoSearch

----------------------------------------------------------------------------
Init ==
    /\ processed_pages = None
    /\ current_file_name = NoName
    /\ uploaded_file = NoFile
    /\ notices = {}
    /\ ui = "info"
    /\ load_status = "none"
    /\ test_result = "none"
    /\ event = "start"
    /\ pc = "idle"
    /\ question = <<>>
    /\ search_mode = Quick
    /\ i = 0
    /\ all_answers = <<>>
    /\ calls = <<>>
    /\ progress_log = <<>>
    /\ completed = 0
    /\ warnings = <<>>
    /\ results = <<>>
    /\ broke = FALSE

\* The user puts a file into the uploader.
Upload(f, ok) ==
    /\ pc = "idle"
    /\ f # uploaded_file
    /\ PlainRun(f, ok, "upload")

\* The user clears the uploader.
RemoveFile ==
    /\ pc = "idle"
    /\ uploaded_file # NoFile
    /\ PlainRun(NoFile, TRUE, "remove")

\* Any other widget interaction (typing, slider, radio, feedback button).
Rerun(ok) ==
    /\ pc = "idle"
    /\ PlainRun(uploaded_file, ok, "rerun")

\* The search button, lines 126-133 and 211-212.
PressSearch(q, m, ok) ==
    /\ pc = "idle"
    /\ ui = "search_ui"
    /\ LET ld == LoadStep(uploaded_file, ok)
       IN  /\ processed_pages' = ld.pages
           /\ current_file_name' = ld.name
           /\ load_status' = ld.status
           /\ ui' = Column2(ld.pages)
           /\ event' = "search"
           /\ test_result' = "none"
           /\ UNCHANGED uploaded_file
           /\ IF ~Truthy(ld.pages)
              THEN /\ notices' = ld.notices
                   /\ pc' = "idle"
                   /\ NoSearch
              ELSE IF QuestionGiven(q)
              THEN /\ notices' = ld.notices
                   /\ pc' = "progress"
                   /\ question' = q
                   /\ search_mode' = m
                   /\ i' = 0
                   /\ all_answers' = <<>>
                   /\ calls' = <<>>
                   /\ progress_log' = <<>>
                   /\ completed' = 0
                   /\ warnings' = <<>>
                   /\ results' = <<>>
                   /\ broke' = FALSE
              ELSE /\ notices' = ld.notices \cup {"empty_question"}
                   /\ pc' = "idle"
                   /\ NoSearch

\* Lines 135-137.
ReportProgress ==
    /\ pc = "progress"
    /\ progress_log' = Append(progress_log,
            [report |-> ProgressReport(i, Len(processed_pages.pages)),
             completed |-> completed])
    /\ pc' = "process"
    /\ UNCHANGED <<processed_pages, current_file_name, uploaded_file, notices, ui,
                   load_status, test_result, event, question, search_mode, i,
                   all_answers, calls, completed, warnings, results, broke>>

\* After page i: the next iteration, or the end of the loop.
Advance(n) ==
    /\ i' = i + 1
    /\ pc' = IF i + 1 < n THEN "progress" ELSE "display"
    /\ broke' = FALSE

\* Lines 139-179 for page i.
\*   outcome "preprocess_error": page.convert / resize raises
\*   outcome "client_error":     query_pipeline raises
\*   outcome "ok":               query_pipeline returns r
ProcessPage(outcome, r) ==
    /\ pc = "process"
    /\ LET n == Len(processed_pages.pages)
       IN  /\ completed' = completed + 1
           /\ calls' = IF outcome = "preprocess_error" THEN calls
                       ELSE Append(calls, i + 1)
           /\ IF outcome # "ok"
              THEN /\ warnings' = Append(warnings, i + 1)
                   /\ all_answers' = PageError(all_answers)
                   /\ Advance(n)
              ELSE LET acc == AppendResults(all_answers, i, Normalize(r))
                   IN  /\ all_answers' = acc
                       /\ warnings' = warnings
                       /\ IF QuickStop(search_mode, acc)
                          THEN /\ pc' = "display"
                               /\ broke' = TRUE
                               /\ i' = i
                          ELSE Advance(n)
    /\ UNCHANGED <<processed_pages, current_file_name, uploaded_file, notices, ui,
                   load_status, test_result, event, question, search_mode,
                   progress_log, results>>

\* Lines 181-210.
DisplayResults ==
    /\ pc = "display"
    /\ results' = SortAnswers(all_answers)
    /\ notices' = IF all_answers # <<>> THEN notices \cup {"results"}
                  ELSE notices \cup {"no_answers"}
    /\ pc' = "idle"
    /\ UNCHANGED <<processed_pages, current_file_name, uploaded_file, ui,
                   load_status, test_result, event, question, search_mode, i,
                   all_answers, calls, progress_log, completed, warnings, broke>>

\* The debug section's "Run Test Query", lines 220-231.
RunTestQuery(ok, raises) ==
    /\ pc = "idle"
    /\ ui = "search_ui"
    /\ LET ld == LoadStep(uploaded_file, ok)
       IN  /\ processed_pages' = ld.pages
           /\ current_file_name' = ld.name
           /\ load_status' = ld.status
           /\ notices' = ld.notices
           /\ ui' = Column2(ld.pages)
           /\ test_result' = IF ~Truthy(ld.pages) THEN "none"
                             ELSE IF raises THEN "error" ELSE "raw"
    /\ event' = "test"
    /\ pc' = "idle"
    /\ UNCHANGED uploaded_file
    /\ NoSearch

Next ==
    \/ \E f \in Files, ok \in BOOLEAN : Upload(f, ok)
    \/ RemoveFile
    \/ \E ok \in BOOLEAN : Rerun(ok)
    \/ \E q \in Questions, m \in Modes, ok \in BOOLEAN : PressSearch(q, m, ok)
    \/ ReportProgress
    \/ \E o \in {"preprocess_error", "client_error"} :
            ProcessPage(o, [kind |-> "list", val |-> <<>>])
    \/ \E r \in Responses : ProcessPage("ok", r)
    \/ DisplayResults
    \/ \E ok \in BOOLEAN, raises \in BOOLEAN : RunTestQuery(ok, raises)

Spec == Init /\ [][Next]_vars

----------------------------------------------------------------------------
(* Properties *)

N == Len(processed_pages.pages)
Last(s) == s[Len(s)]
UpTo(k) == [j \in 1..k |-> j]
WithScore(s, sc) == SelectSeq(s, LAMBDA x : x.score = sc)
PagesOf(s) == {s[j].page : j \in DOMAIN s}
InSeq(s) == {s[j] : j \in DOMAIN s}

\* A scan has run to its end and its results section has been rendered.
ScanShown == event = "search" /\ pc = "idle" /\ progress_log # <<>>

\* Pages that produced an accepted candidate with score > 0.05.
HighPages ==
    {all_answers[j].page :
        j \in {k \in DOMAIN all_answers : all_answers[k].score > StopThreshold}}

\* C1: in Quick mode without failures, if page k is the first page producing a
\* candidate with score > 0.05, the client is invoked for pages 1..k exactly
\* and for no later page.
C1_QuickStopsAtFirstHighPage ==
    (ScanShown /\ search_mode = Quick /\ warnings = <<>> /\ HighPages # {})
        => LET k == CHOOSE p \in HighPages : \A o \in HighPages : p <= o
           IN  calls = UpTo(k)

\* C2: in Thorough mode without failures the client is invoked once per page,
\* in increasing page order, for all N pages, whatever the scores.
C2_ThoroughCallsEveryPage ==
    (event = "search" /\ search_mode = Thorough /\ warnings = <<>>)
        => /\ calls = UpTo(Len(calls))
           /\ Len(calls) = completed
           /\ ~broke
           /\ (pc \in {"display", "idle"} => Len(calls) = N)

C2_Witness ==
    /\ ScanShown /\ search_mode = Thorough /\ warnings = <<>>
    /\ N = MaxPages /\ calls = UpTo(MaxPages)
    /\ 1 \in HighPages

\* C3: every entry of the accumulator and of the displayed list has non-empty
\* trimmed text, score > 0.01, and the index (1..N) of a page that was passed
\* to the client, did not fail and had been processed when it was appended.
C3_Entry(e) ==
    /\ e.answer # <<>> /\ Strip(e.answer) = e.answer
    /\ e.score > InclusionThreshold
    /\ e.page \in 1..N
    /\ e.page \in InSeq(calls) /\ e.page \notin InSeq(warnings)
    /\ e.page <= completed
C3_State ==
    /\ \A j \in DOMAIN all_answers : C3_Entry(all_answers[j])
    /\ \A j \in DOMAIN results : C3_Entry(results[j])
    /\ \A j \in DOMAIN all_answers : \A k \in DOMAIN all_answers :
            j < k => all_answers[j].page <= all_answers[k].page
    /\ InSeq(results) \subseteq InSeq(all_answers)
\* What the processing of page i+1 appends carries the page index i+1.
C3_Step ==
    pc = "process"
        => /\ Len(all_answers') >= Len(all_answers)
           /\ SubSeq(all_answers', 1, Len(all_answers)) = all_answers
           /\ \A j \in (Len(all_answers) + 1)..Len(all_answers') :
                  all_answers'[j].page = i + 1
C3_OnlyQualifyingCandidates == []C3_State /\ [][C3_Step]_vars

C3_Witness ==
    /\ ScanShown /\ results # <<>>
    /\ \E p \in InSeq(calls) : p \notin InSeq(warnings) /\ p \notin PagesOf(results)

\* C4: the displayed list is the accumulator sorted by score descending, and
\* candidates of equal score keep the order in which they were appended.
C4_SortedStable ==
    "results" \in notices
        => /\ Len(results) = Len(all_answers)
           /\ \A j \in DOMAIN results : \A k \in DOMAIN results :
                  j < k => results[j].score >= results[k].score
           /\ \A sc \in Scores : WithScore(results, sc) = WithScore(all_answers, sc)

C4_Witness ==
    /\ "results" \in notices
    /\ results # all_answers
    /\ \E j \in DOMAIN results : \E k \in DOMAIN results :
          j < k /\ results[j].score = results[k].score
                /\ results[j].page < results[k].page

\* C5: a page whose preprocessing or client call raises is reported by a
\* warning naming it, contributes no candidate, leaves the accumulator as it
\* was, and the scan goes on with the next page; in Thorough mode all N pages
\* are attempted and the result holds candidates of non-failing pages only.
C5_FailStep ==
    Len(warnings') = Len(warnings) + 1
        => /\ warnings' = Append(warnings, i + 1)
           /\ all_answers' = all_answers
           /\ i' = i + 1
           /\ ~broke'
           /\ pc' = IF i + 1 < N THEN "progress" ELSE "display"
C5_State ==
    /\ PagesOf(all_answers) \cap InSeq(warnings) = {}
    /\ PagesOf(results) \cap InSeq(warnings) = {}
    /\ (ScanShown /\ search_mode = Thorough)
            => /\ completed = N
               /\ Len(progress_log) = N
               /\ InSeq(warnings) \subseteq 1..N
               /\ PagesOf(results) \subseteq (1..N) \ InSeq(warnings)
C5_PageFailureIsolated == []C5_State /\ [][C5_FailStep]_vars

C5_Witness ==
    /\ ScanShown /\ search_mode = Thorough
    /\ warnings = <<1>> /\ N = MaxPages
    /\ results # <<>>

\* C6: pressing the search button with an empty or whitespace-only question
\* invokes no search: no client call, no result list, and a warning.
C6_BlankQuestionNotSearched ==
    (event = "search" /\ Strip(question) = <<>>)
        => /\ pc = "idle"
           /\ calls = <<>> /\ progress_log = <<>> /\ results = <<>>
           /\ "empty_question" \in notices

\* C7 (as stated): a progress report (i, N) is emitted only after page i has
\* completed processing.
C7_ProgressAfterCompletion ==
    \A k \in DOMAIN progress_log :
        progress_log[k].report.done <= progress_log[k].completed

\* C7 (amended): the progress report (i, N) of page i is emitted at the start
\* of page i's iteration, before the page is processed, when exactly i-1 pages
\* have completed; it is emitted once for every page scanned, in page order,
\* whatever the page's outcome.
C7_ProgressBeforeProcessing ==
    /\ \A k \in DOMAIN progress_log :
          /\ progress_log[k].report = [done |-> k, total |-> N]
          /\ progress_log[k].completed = k - 1
    /\ Len(progress_log) = IF pc = "process" THEN completed + 1 ELSE completed

C7_Witness ==
    /\ ScanShown /\ Len(progress_log) = MaxPages /\ MaxPages >= 2
    /\ warnings # <<>> /\ broke

\* C8: after a failed PDF load the error is shown, and until a later load
\* succeeds the question UI is unavailable and the client cannot be invoked,
\* even if a document had been loaded successfully before.
C8_NoSearchAfterLoadFailure ==
    load_status = "failed"
        => /\ processed_pages.none
           /\ ui = "info"
           /\ pc = "idle"
           /\ calls = <<>> /\ results = <<>> /\ test_result = "none"
           /\ (uploaded_file # NoFile => "load_error" \in notices)

C8_Witness ==
    /\ load_status = "failed"
    /\ current_file_name # NoName
    /\ uploaded_file # NoFile
    /\ uploaded_file.name # current_file_name

\* C9: in Quick mode, when the scan breaks at page i, the candidate with
\* score > 0.05 that triggered it is the last one appended and was produced by
\* page i; no candidate with score > 0.05 is ever left at the end of the
\* accumulator by an earlier page, and no later page is passed to the client.
C9_BreakOnCurrentPage ==
    /\ broke
        => /\ search_mode = Quick
           /\ all_answers # <<>>
           /\ Last(all_answers).score > StopThreshold
           /\ Last(all_answers).page = i + 1
           /\ calls # <<>> /\ Last(calls) = i + 1
           /\ \A c \in InSeq(calls) : c <= i + 1
           /\ completed = i + 1
    /\ (search_mode = Quick /\ pc \in {"progress", "process"} /\ all_answers # <<>>)
        => Last(all_answers).score <= StopThreshold

C9_Witness ==
    /\ broke /\ pc = "idle"
    /\ i + 1 = MaxPages /\ MaxPages >= 2
    /\ Len(all_answers) >= 2
    /\ all_answers[1].page < i + 1

\* C10: whenever the search UI is available and a file is in the uploader,
\* the pages in session state are those rasterized from that file.
C10_PagesOfCurrentFile ==
    (ui = "search_ui" /\ uploaded_file # NoFile)
        => processed_pages = Some(Rasterize(uploaded_file.content))

====
